---- MODULE Spec2Model ----
(***************************************************************************)
(* Model of the sensory-preference store of NVLP-Frontend                  *)
(* (src/src/context/SensoryContext.jsx, SensoryProvider) together with the *)
(* part of App that feeds it the `user` prop and the onAuthFailure         *)
(* callback (src/unnamed/part_001), the axios instance of src/src/api.js,  *)
(* the initialization of App and the pomodoro timer of FocusEngine        *)
(* (src/unnamed/part_005).                                                 *)
(*                                                                         *)
(* JavaScript values are modelled as strings ("true", "false", "small",    *)
(* "medium", "large", "undefined"), so that a preference field can hold    *)
(* whatever the code would store in it.                                    *)
(*                                                                         *)
(* One step of the model is one run-to-completion task of the JavaScript   *)
(* event loop: the synchronous part of updatePreference up to its await,   *)
(* the continuation after the await, a timer callback, or a commit of a    *)
(* new `user` prop together with the two effects that depend on [user].    *)
(***************************************************************************)
EXTENDS Integers, FiniteSets, Sequences, TLC

\* Total number of updatePreference calls explored (caps requestIdRef).
MaxRequests == 2

\* Number of api.patchUserProfile requests that pass through the axios
\* instance concurrently.
MaxApiRequests == 2

\* Number of token-refresh requests nested under one request (a refresh
\* request answered with 401 enters the response interceptor itself).
MaxNesting == 2

VARIABLES
    user,               \* index of the user object passed as prop; 0 is null
    preferencesRef,     \* preferencesRef.current
    reactState,         \* darkMode, lowAudio, ... (the values the UI shows)
    savingStatus,       \* 'idle' | 'saving' | 'saved' | 'error'
    requestIdRef,       \* requestIdRef.current
    pendingRequestsRef, \* pendingRequestsRef.current
    timeoutIdsRef,      \* number of scheduled auto-clear timers not yet fired or cleared
    inflight,           \* updatePreference calls suspended at `await api.patchUserProfile`
    logoutRequested,    \* handleLogout has called setUser(null), not yet committed
    lastConfirmed,      \* history: the last set the backend confirmed (hydrated or saved)
    event,              \* history: the step that produced the current state
    accessToken,        \* localStorage[TOKEN_KEY]
    refreshToken,       \* localStorage[REFRESH_TOKEN_KEY] is present
    requests,           \* the patchUserProfile requests inside the axios instance
    isInitializing,     \* App: the loading screen is shown
    isAuthenticated,    \* App: the dashboard (not the login form) is shown
    appUser,            \* App: `user` and `courses`, always set together
    isLoadingUser,      \* App: isLoadingUser and isLoadingCourses, always set together
    error,              \* App: an error message is set
    initializeApp,      \* App: position of the initializeApp call
    safetyTimeout,      \* App: the 8-second timer of initializeApp
    fetches,            \* App: api.getUserProfile() and api.getCourses() of initializeApp
    timeLeft,           \* FocusEngine: seconds left on the countdown
    isRunning,          \* FocusEngine: the countdown is running
    mode,               \* FocusEngine: 'work' | 'break' | 'longBreak'
    cyclesCompleted,    \* FocusEngine: completed work cycles
    isLoading           \* FocusEngine: initializeTimer has not finished

\* The state of SensoryProvider.
providerVars == <<user, preferencesRef, reactState, savingStatus, requestIdRef,
                  pendingRequestsRef, timeoutIdsRef, inflight, logoutRequested,
                  lastConfirmed, event>>

\* The state of the api module: token storage and requests in progress.
apiVars == <<accessToken, refreshToken, requests>>

\* The state of App that initialization, login and logout set.
appVars == <<isInitializing, isAuthenticated, appUser, isLoadingUser, error,
             initializeApp, safetyTimeout, fetches>>

\* The state of the pomodoro timer of FocusEngine.
focusVars == <<timeLeft, isRunning, mode, cyclesCompleted, isLoading>>

vars == <<user, preferencesRef, reactState, savingStatus, requestIdRef,
          pendingRequestsRef, timeoutIdsRef, inflight, logoutRequested,
          lastConfirmed, event, accessToken, refreshToken, requests,
          isInitializing, isAuthenticated, appUser, isLoadingUser, error,
          initializeApp, safetyTimeout, fetches,
          timeLeft, isRunning, mode, cyclesCompleted, isLoading>>

-----------------------------------------------------------------------------
(* Preference names and values *)

BooleanPreferences ==
    {"dark_mode", "low_audio", "reduce_animations", "dyslexic_font", "bionic_reading"}

\* The six cases of the switch in updatePreference.
RecognizedPreferences == BooleanPreferences \cup {"font_size"}

FontSizes == {"small", "medium", "large"}

\* A name for which the switch takes its default branch.
UnknownPreferences == {"high_contrast"}

ValidValues(preference) ==
    IF preference = "font_size" THEN FontSizes ELSE {"true", "false"}

\* A value outside the domain of the preference: a non-boolean (the string
\* 'yes') for a switch, a size that is none of the three for font_size.
InvalidValues(preference) ==
    IF preference = "font_size" THEN {"huge"} ELSE {"yes"}

\* useRef({...}) / the object literal of the reset effect.
DefaultPreferences ==
    [dark_mode |-> "false", low_audio |-> "false", reduce_animations |-> "false",
     dyslexic_font |-> "false", bionic_reading |-> "false", font_size |-> "medium"]

\* JavaScript truthiness of a modelled value.
Truthy(v) == v \notin {"false", "undefined", ""}

\* JavaScript `a || b`.
Or(a, b) == IF Truthy(a) THEN a ELSE b

\* JavaScript `!a`.
Not(a) == IF Truthy(a) THEN "false" ELSE "true"

-----------------------------------------------------------------------------
(* The user objects App may pass as the `user` prop *)

\* A preference bundle in which every field is missing.
NoRemotePreferences == [k \in RecognizedPreferences |-> "undefined"]

\* user objects; hasPreferences = FALSE is a profile without a `preferences` field.
\* The third one carries malformed fields: a truthy non-boolean, an empty
\* string and an unknown size.
ProfileTable ==
    << [hasPreferences |-> FALSE, preferences |-> NoRemotePreferences],
       [hasPreferences |-> TRUE,
        preferences |-> [NoRemotePreferences EXCEPT !["low_audio"] = "true",
                                                    !["dark_mode"] = "false",
                                                    !["font_size"] = "large"]],
       [hasPreferences |-> TRUE,
        preferences |-> [NoRemotePreferences EXCEPT !["low_audio"] = "true",
                                                    !["dark_mode"] = "yes",
                                                    !["bionic_reading"] = "",
                                                    !["font_size"] = "huge"]] >>

Profiles == 1..Len(ProfileTable)

\* The profiles of a backend that stores only what this client sends: every
\* field is missing or in its domain.
WellFormedProfiles ==
    {u \in Profiles :
        \A k \in RecognizedPreferences :
            ProfileTable[u].preferences[k] \in ValidValues(k) \cup {"undefined"}}

\* The `user` prop value null.
NullUser == 0

-----------------------------------------------------------------------------
(* The record of the step that produced the current state *)

\* settled: how the promise returned by updatePreference settled in this step.
NoEvent ==
    [op |-> "mount", id |-> 0, preference |-> "", outcome |-> "",
     latest |-> FALSE, applied |-> FALSE, hadTimers |-> FALSE, authFailureCalls |-> 0,
     settled |-> ""]

-----------------------------------------------------------------------------
(* The requests inside the axios instance *)

ApiRequests == 1..MaxApiRequests

\* A request that api.patchUserProfile has not yet made.
\*   stack        the request itself (kind "patch") and, on top of it, the
\*                token-refresh requests its interceptor invocations await;
\*                the last element is the request on the wire, `retry` is the
\*                _retry flag of the request's config
\*   patchSends   history: how often the PATCH was put on the wire
\*   refreshSends history: how often a refresh request was put on the wire
\*   refreshed    history: the refresh awaited by the PATCH's interceptor succeeded
\*   outcome      how the promise of patchUserProfile settled: "" (pending),
\*                "ok", or the `status` of the error: "0", "401", "500"
\*   escalated    updatePreference's catch block called onAuthFailure
\*   cause        history: the branch of the interceptor that rejected the call:
\*                "refreshFailed", "noRefreshToken", "retried" or "other"
\*   removed      history: the tokens the interceptor removed from storage
\*                before rejecting: "none", "access" or "both"
NoRequest ==
    [stack |-> <<>>, patchSends |-> 0, refreshSends |-> 0, refreshed |-> FALSE,
     outcome |-> "", escalated |-> FALSE, cause |-> "", removed |-> "none"]

-----------------------------------------------------------------------------
(* Initial state: after the first render with user = null and its effects *)

\* SensoryProvider after its first render and effects.
InitProvider ==
    /\ user = NullUser
    /\ preferencesRef = DefaultPreferences
    /\ reactState = DefaultPreferences
    /\ savingStatus = "idle"
    /\ requestIdRef = 0
    /\ pendingRequestsRef = 0
    /\ timeoutIdsRef = 0
    /\ inflight = {}
    /\ logoutRequested = FALSE
    /\ lastConfirmed = DefaultPreferences
    /\ event = NoEvent

\* The two requests initializeApp awaits with Promise.all.
Fetches == {"getUserProfile", "getCourses"}

\* App before its mount effect has run: the useState initial values.
InitAppState ==
    /\ isInitializing = TRUE
    /\ isAuthenticated = FALSE
    /\ appUser = "null"
    /\ isLoadingUser = FALSE
    /\ error = FALSE
    /\ initializeApp = "notStarted"
    /\ safetyTimeout = "unset"
    /\ fetches = [f \in Fetches |-> "none"]

\* Timer settings of FocusEngine in minutes (25, 5 and 15 by default) and the
\* number of work cycles that ends with a long break (4 by default), scaled
\* down.
workDuration == 2

breakDuration == 1

longBreakDuration == 3

cyclesToLongBreak == 2

\* Number of completed work cycles explored (caps cyclesCompleted).
MaxCycles == 4

\* FocusEngine before initializeTimer has finished: the useState initial
\* values, timeLeft being the work duration in seconds.
InitFocus ==
    /\ timeLeft = workDuration * 60
    /\ isRunning = FALSE
    /\ mode = "work"
    /\ cyclesCompleted = 0
    /\ isLoading = TRUE

Init ==
    /\ InitProvider
    /\ accessToken = "stored"
    /\ refreshToken = TRUE
    /\ requests = [r \in ApiRequests |-> NoRequest]
    /\ InitAppState
    /\ InitFocus

-----------------------------------------------------------------------------
(* updatePreference: the synchronous part, up to the await *)

\* Mutant of ApplyPreference: the assignment is lost.
KeepPreference(prefs, preference, value) == prefs

\* The in-place assignment preferencesRef.current[preference] = value.
ApplyPreference(prefs, preference, value) == [prefs EXCEPT ![preference] = value]

\* Mutant of NewCall: the payload is built before the switch, from the set as
\* it stood when the call was made.
NewCallStalePayload(preference, value) ==
    [id |-> requestIdRef + 1,
     preference |-> preference,
     value |-> value,
     previousValue |-> preferencesRef[preference],
     previousPreferences |-> preferencesRef,
     currentPreferences |-> preferencesRef,
     shownBefore |-> reactState[preference],
     undisturbed |-> TRUE,
     resetSince |-> FALSE,
     superseded |-> FALSE]

\* The state captured by the closure of one updatePreference call.
NewCall(preference, value) ==
    [id |-> requestIdRef + 1,
     preference |-> preference,
     value |-> value,
     previousValue |-> preferencesRef[preference],
     previousPreferences |-> preferencesRef,
     currentPreferences |-> ApplyPreference(preferencesRef, preference, value),
     shownBefore |-> reactState[preference],   \* history: the value the UI showed
     undisturbed |-> TRUE,                     \* history: no reset or hydration since
     resetSince |-> FALSE,                     \* history: a reset ran since the call
     superseded |-> FALSE]                     \* history: a later call was sent since

\* Mutant of UpdatePreferenceNoUser: the user check comes after the sequence
\* number is allocated and the status is set.
UpdatePreferenceNoUserLate(preference, value) ==
    /\ user = NullUser
    /\ requestIdRef' = IF requestIdRef < MaxRequests THEN requestIdRef + 1 ELSE requestIdRef
    /\ savingStatus' = "saving"
    /\ event' = [NoEvent EXCEPT !.op = "noUser", !.settled = "fulfilled"]
    /\ UNCHANGED <<user, preferencesRef, reactState, pendingRequestsRef,
                   timeoutIdsRef, inflight, logoutRequested, lastConfirmed>>
    /\ UNCHANGED <<apiVars, appVars, focusVars>>

\* `if (!user) return;`
UpdatePreferenceNoUser(preference, value) ==
    /\ user = NullUser
    /\ event' = [NoEvent EXCEPT !.op = "noUser", !.settled = "fulfilled"]
    /\ UNCHANGED <<user, preferencesRef, reactState, savingStatus, requestIdRef,
                   pendingRequestsRef, timeoutIdsRef, inflight, logoutRequested,
                   lastConfirmed>>
    /\ UNCHANGED <<apiVars, appVars, focusVars>>

\* The default branch of the switch.
UpdatePreferenceUnknown(preference, value) ==
    /\ user # NullUser
    /\ requestIdRef < MaxRequests
    /\ preference \notin RecognizedPreferences
    /\ requestIdRef' = requestIdRef + 1
    /\ savingStatus' = "idle"
    /\ event' = [NoEvent EXCEPT !.op = "unknown", !.settled = "fulfilled"]
    /\ UNCHANGED <<user, preferencesRef, reactState, pendingRequestsRef,
                   timeoutIdsRef, inflight, logoutRequested, lastConfirmed>>
    /\ UNCHANGED <<apiVars, appVars, focusVars>>

\* History only: marks the calls in flight when a later call is sent.
Superseded(calls) == {[c EXCEPT !.superseded = TRUE] : c \in calls}

\* One of the six cases of the switch, then the request is sent.
UpdatePreferenceUpTo(limit, preference, value) ==
    /\ user # NullUser
    /\ requestIdRef < limit
    /\ preference \in RecognizedPreferences
    /\ requestIdRef' = requestIdRef + 1
    /\ savingStatus' = "saving"
    /\ preferencesRef' = ApplyPreference(preferencesRef, preference, value)
    /\ reactState' = ApplyPreference(reactState, preference, value)
    /\ pendingRequestsRef' = pendingRequestsRef + 1
    /\ inflight' = Superseded(inflight) \cup {NewCall(preference, value)}
    /\ event' = [NoEvent EXCEPT !.op = "call"]
    /\ UNCHANGED <<user, timeoutIdsRef, logoutRequested, lastConfirmed>>
    /\ UNCHANGED <<apiVars, appVars, focusVars>>

\* updatePreference, explored for MaxRequests calls.
UpdatePreference(preference, value) == UpdatePreferenceUpTo(MaxRequests, preference, value)

\* The values the controls of StudentDashboard pass: `!darkMode` etc. for the
\* five switches, one of the three sizes for the font-size buttons.
ClickValues(preference) ==
    CASE preference = "font_size" -> FontSizes
      [] preference \in BooleanPreferences -> {Not(reactState[preference])}
      [] OTHER -> {"true"}

-----------------------------------------------------------------------------
(* updatePreference: the continuation after the await *)

\* `if (pendingRequestsRef.current > 0) pendingRequestsRef.current -= 1;`
DecrementPending(n) == IF n > 0 THEN n - 1 ELSE n

\* Mutant of IsLatestRequest: every resolution is treated as the latest.
AlwaysLatestRequest(id) == TRUE

\* Mutant of IsLatestRequest: every resolution is treated as stale.
NeverLatestRequest(id) == FALSE

\* `currentRequestId === requestIdRef.current`
IsLatestRequest(id) == id = requestIdRef

\* api.patchUserProfile resolved.
ResolveSuccess(call) ==
    /\ call \in inflight
    /\ inflight' = inflight \ {call}
    /\ pendingRequestsRef' = DecrementPending(pendingRequestsRef)
    /\ IF IsLatestRequest(call.id)
          THEN /\ savingStatus' = "saved"
               /\ timeoutIdsRef' = timeoutIdsRef + 1
          ELSE UNCHANGED <<savingStatus, timeoutIdsRef>>
    /\ event' = [NoEvent EXCEPT !.op = "resolve", !.settled = "fulfilled", !.outcome = "ok",
                                !.latest = (call.id = requestIdRef)]
    /\ lastConfirmed' = call.currentPreferences
    /\ UNCHANGED <<user, preferencesRef, reactState, requestIdRef, logoutRequested>>
    /\ UNCHANGED <<apiVars, appVars, focusVars>>

\* Mutant of ResolveAuthFailure: the 401 check is missing, the error is handled
\* like any other failure.
AuthFailureAsFailure(call) ==
    /\ call \in inflight
    /\ inflight' = inflight \ {call}
    /\ pendingRequestsRef' = DecrementPending(pendingRequestsRef)
    /\ IF IsLatestRequest(call.id)
          THEN /\ preferencesRef' = call.previousPreferences
               /\ reactState' = [reactState EXCEPT ![call.preference] = call.previousValue]
               /\ savingStatus' = "error"
               /\ timeoutIdsRef' = timeoutIdsRef + 1
          ELSE UNCHANGED <<preferencesRef, reactState, savingStatus, timeoutIdsRef>>
    /\ event' = [NoEvent EXCEPT !.op = "resolve", !.settled = "fulfilled", !.outcome = "401",
                                !.latest = (call.id = requestIdRef)]
    /\ UNCHANGED <<user, requestIdRef, logoutRequested, lastConfirmed>>
    /\ UNCHANGED <<apiVars, appVars, focusVars>>

\* Mutant of ResolveAuthFailure: the 401 branch comes after the latest-request
\* check, a superseded call that fails with 401 is ignored.
AuthFailureOnlyIfLatest(call) ==
    /\ call \in inflight
    /\ inflight' = inflight \ {call}
    /\ IF IsLatestRequest(call.id)
          THEN /\ pendingRequestsRef' = DecrementPending(pendingRequestsRef)
               /\ logoutRequested' = (logoutRequested \/ user # NullUser)
          ELSE UNCHANGED <<pendingRequestsRef, logoutRequested>>
    /\ event' = [NoEvent EXCEPT !.op = "resolve", !.settled = "fulfilled", !.outcome = "401",
                                !.latest = (call.id = requestIdRef),
                                !.authFailureCalls = IF IsLatestRequest(call.id) THEN 1 ELSE 0]
    /\ UNCHANGED <<user, preferencesRef, reactState, savingStatus, requestIdRef,
                   timeoutIdsRef, lastConfirmed>>
    /\ UNCHANGED <<apiVars, appVars, focusVars>>

\* api.patchUserProfile rejected with err.status === 401.
ResolveAuthFailure(call) ==
    /\ call \in inflight
    /\ inflight' = inflight \ {call}
    /\ pendingRequestsRef' = DecrementPending(pendingRequestsRef)
    /\ logoutRequested' = (logoutRequested \/ user # NullUser)
    /\ event' = [NoEvent EXCEPT !.op = "resolve", !.settled = "fulfilled", !.outcome = "401",
                                !.latest = (call.id = requestIdRef),
                                !.authFailureCalls = 1]
    /\ UNCHANGED <<user, preferencesRef, reactState, savingStatus, requestIdRef,
                   timeoutIdsRef, lastConfirmed>>
    /\ UNCHANGED <<apiVars, appVars, focusVars>>

\* Mutant of ResolveFailure: the status is set and the shown value restored,
\* but the ref keeps the optimistic values.
ResolveFailureKeepingRef(call) ==
    /\ call \in inflight
    /\ inflight' = inflight \ {call}
    /\ pendingRequestsRef' = DecrementPending(pendingRequestsRef)
    /\ IF IsLatestRequest(call.id)
          THEN /\ reactState' = [reactState EXCEPT ![call.preference] = call.previousValue]
               /\ savingStatus' = "error"
               /\ timeoutIdsRef' = timeoutIdsRef + 1
               /\ UNCHANGED preferencesRef
          ELSE UNCHANGED <<preferencesRef, reactState, savingStatus, timeoutIdsRef>>
    /\ event' = [NoEvent EXCEPT !.op = "resolve", !.settled = "fulfilled", !.outcome = "error",
                                !.latest = (call.id = requestIdRef)]
    /\ UNCHANGED <<user, requestIdRef, logoutRequested, lastConfirmed>>
    /\ UNCHANGED <<apiVars, appVars, focusVars>>

\* Mutant of ResolveFailure: the error of a superseded call is thrown again
\* instead of being ignored.
ResolveFailureRethrown(call) ==
    /\ call \in inflight
    /\ inflight' = inflight \ {call}
    /\ pendingRequestsRef' = DecrementPending(pendingRequestsRef)
    /\ IF IsLatestRequest(call.id)
          THEN /\ preferencesRef' = call.previousPreferences
               /\ reactState' = [reactState EXCEPT ![call.preference] = call.previousValue]
               /\ savingStatus' = "error"
               /\ timeoutIdsRef' = timeoutIdsRef + 1
          ELSE UNCHANGED <<preferencesRef, reactState, savingStatus, timeoutIdsRef>>
    /\ event' = [NoEvent EXCEPT !.op = "resolve", !.outcome = "error",
                                !.latest = (call.id = requestIdRef),
                                !.settled = IF IsLatestRequest(call.id)
                                               THEN "fulfilled" ELSE "rejected"]
    /\ UNCHANGED <<user, requestIdRef, logoutRequested, lastConfirmed>>
    /\ UNCHANGED <<apiVars, appVars, focusVars>>

\* api.patchUserProfile rejected with any other error.
ResolveFailure(call) ==
    /\ call \in inflight
    /\ inflight' = inflight \ {call}
    /\ pendingRequestsRef' = DecrementPending(pendingRequestsRef)
    /\ IF IsLatestRequest(call.id)
          THEN /\ preferencesRef' = call.previousPreferences
               /\ reactState' = [reactState EXCEPT ![call.preference] = call.previousValue]
               /\ savingStatus' = "error"
               /\ timeoutIdsRef' = timeoutIdsRef + 1
          ELSE UNCHANGED <<preferencesRef, reactState, savingStatus, timeoutIdsRef>>
    /\ event' = [NoEvent EXCEPT !.op = "resolve", !.settled = "fulfilled", !.outcome = "error",
                                !.latest = (call.id = requestIdRef)]
    /\ UNCHANGED <<user, requestIdRef, logoutRequested, lastConfirmed>>
    /\ UNCHANGED <<apiVars, appVars, focusVars>>

-----------------------------------------------------------------------------
(* The auto-clear timers *)

\* The callback of successTimeoutId / errorTimeoutId.
AutoClearTimer ==
    /\ timeoutIdsRef > 0
    /\ timeoutIdsRef' = timeoutIdsRef - 1
    /\ savingStatus' = IF pendingRequestsRef = 0 THEN "idle" ELSE savingStatus
    /\ event' = [NoEvent EXCEPT !.op = "timer"]
    /\ UNCHANGED <<user, preferencesRef, reactState, requestIdRef,
                   pendingRequestsRef, inflight, logoutRequested, lastConfirmed>>
    /\ UNCHANGED <<apiVars, appVars, focusVars>>

-----------------------------------------------------------------------------
(* The effects that depend on [user] *)

\* newPrefs of the hydrate effect.
NewPrefs(prefs) == [k \in RecognizedPreferences |-> Or(prefs[k], DefaultPreferences[k])]

\* prefsChanged of the hydrate effect.
PrefsChanged(newPrefs) == \E k \in RecognizedPreferences : preferencesRef[k] # newPrefs[k]

\* Mutant of WillUpdate: the pending-request check is missing.
WillUpdateIgnoringPending(newPrefs) == PrefsChanged(newPrefs)

\* `pendingRequestsRef.current === 0 && prefsChanged`
WillUpdate(newPrefs) == pendingRequestsRef = 0 /\ PrefsChanged(newPrefs)

\* History only: marks the calls in flight when a reset or a hydration replaces the set.
Disturbed(calls) == {[c EXCEPT !.undisturbed = FALSE] : c \in calls}

\* History only: marks the calls in flight when the reset effect runs.
AfterReset(calls) == {[c EXCEPT !.undisturbed = FALSE, !.resetSince = TRUE] : c \in calls}

\* App passes a new, non-null user object: the hydrate effect runs.
SetUser(u) ==
    /\ u \in Profiles
    /\ ~logoutRequested
    /\ user' = u
    /\ LET profile == ProfileTable[u]
           newPrefs == NewPrefs(profile.preferences)
           willUpdate == profile.hasPreferences /\ WillUpdate(newPrefs)
       IN  /\ IF willUpdate
                 THEN /\ reactState' = newPrefs
                      /\ preferencesRef' = newPrefs
                      /\ inflight' = Disturbed(inflight)
                 ELSE UNCHANGED <<reactState, preferencesRef, inflight>>
           /\ lastConfirmed' = IF profile.hasPreferences /\ pendingRequestsRef = 0
                                  THEN newPrefs ELSE lastConfirmed
           /\ event' = [NoEvent EXCEPT !.op = "hydrate", !.applied = willUpdate]
    /\ UNCHANGED <<savingStatus, requestIdRef, pendingRequestsRef, timeoutIdsRef,
                   logoutRequested>>
    /\ UNCHANGED <<apiVars, appVars, focusVars>>

\* Mutant of Logout: the reset effect forgets the timers and the pending counter.
LogoutKeepingTimers ==
    /\ user # NullUser
    /\ user' = NullUser
    /\ reactState' = DefaultPreferences
    /\ preferencesRef' = DefaultPreferences
    /\ savingStatus' = "idle"
    /\ logoutRequested' = FALSE
    /\ inflight' = AfterReset(inflight)
    /\ lastConfirmed' = DefaultPreferences
    /\ event' = [NoEvent EXCEPT !.op = "reset", !.hadTimers = (timeoutIdsRef > 0)]
    /\ UNCHANGED <<requestIdRef, timeoutIdsRef, pendingRequestsRef>>
    /\ UNCHANGED <<apiVars, appVars, focusVars>>

\* Mutant of Logout: the reset effect also restarts the sequence numbers.
LogoutRestartingIds ==
    /\ user # NullUser
    /\ user' = NullUser
    /\ reactState' = DefaultPreferences
    /\ preferencesRef' = DefaultPreferences
    /\ savingStatus' = "idle"
    /\ timeoutIdsRef' = 0
    /\ pendingRequestsRef' = 0
    /\ logoutRequested' = FALSE
    /\ inflight' = AfterReset(inflight)
    /\ lastConfirmed' = DefaultPreferences
    /\ event' = [NoEvent EXCEPT !.op = "reset", !.hadTimers = (timeoutIdsRef > 0)]
    /\ requestIdRef' = 0
    /\ UNCHANGED <<apiVars, appVars, focusVars>>

\* handleLogout sets the user to null: the reset effect runs.
Logout ==
    /\ user # NullUser
    /\ user' = NullUser
    /\ reactState' = DefaultPreferences
    /\ preferencesRef' = DefaultPreferences
    /\ savingStatus' = "idle"
    /\ timeoutIdsRef' = 0
    /\ pendingRequestsRef' = 0
    /\ logoutRequested' = FALSE
    /\ inflight' = AfterReset(inflight)
    /\ lastConfirmed' = DefaultPreferences
    /\ event' = [NoEvent EXCEPT !.op = "reset", !.hadTimers = (timeoutIdsRef > 0)]
    /\ UNCHANGED requestIdRef
    /\ UNCHANGED <<apiVars, appVars, focusVars>>

-----------------------------------------------------------------------------

Next ==
    \/ \E p \in RecognizedPreferences \cup UnknownPreferences :
         \E v \in ClickValues(p) : UpdatePreferenceNoUser(p, v)
    \/ \E p \in UnknownPreferences : \E v \in ClickValues(p) : UpdatePreferenceUnknown(p, v)
    \/ \E p \in RecognizedPreferences : \E v \in ClickValues(p) : UpdatePreference(p, v)
    \/ \E call \in inflight : ResolveSuccess(call)
    \/ \E call \in inflight : ResolveAuthFailure(call)
    \/ \E call \in inflight : ResolveFailure(call)
    \/ AutoClearTimer
    \/ \E u \in WellFormedProfiles : SetUser(u)
    \/ Logout

Spec == Init /\ [][Next]_vars

\* The same provider with one more updatePreference call of a signed-in user:
\* enough for a call left over from an earlier session, a call A and a call B.
NextOneMoreCall ==
    \/ Next
    \/ \E p \in RecognizedPreferences :
         \E v \in ClickValues(p) : UpdatePreferenceUpTo(MaxRequests + 1, p, v)

SpecOneMoreCall == Init /\ [][NextOneMoreCall]_vars

\* The values any consumer of the context may pass to updatePreference.
AnyValues(preference) == ClickValues(preference) \cup InvalidValues(preference)

\* The same provider with unrestricted inputs: any value in a call, any
\* profile from the backend.
NextAnyInput ==
    \/ \E p \in RecognizedPreferences \cup UnknownPreferences :
         \E v \in AnyValues(p) : UpdatePreferenceNoUser(p, v)
    \/ \E p \in UnknownPreferences : \E v \in AnyValues(p) : UpdatePreferenceUnknown(p, v)
    \/ \E p \in RecognizedPreferences : \E v \in AnyValues(p) : UpdatePreference(p, v)
    \/ \E call \in inflight : ResolveSuccess(call)
    \/ \E call \in inflight : ResolveAuthFailure(call)
    \/ \E call \in inflight : ResolveFailure(call)
    \/ AutoClearTimer
    \/ \E u \in Profiles : SetUser(u)
    \/ Logout

SpecAnyInput == Init /\ [][NextAnyInput]_vars

-----------------------------------------------------------------------------
(* api.js: patchUserProfile and the response interceptor of the axios instance *)

\* The request of r that is on the wire.
Top(r) == requests[r].stack[Len(requests[r].stack)]

\* api.patchUserProfile(data): axiosInstance.patch sends the request.
SendPatch(r) ==
    /\ requests[r].stack = <<>>
    /\ requests[r].patchSends = 0
    /\ requests' = [requests EXCEPT ![r].stack = <<[kind |-> "patch", retry |-> FALSE]>>,
                                    ![r].patchSends = 1]
    /\ UNCHANGED <<accessToken, refreshToken>>
    /\ UNCHANGED <<providerVars, appVars, focusVars>>

\* Mutant of RejectTop: the interceptor rejects without touching the stored
\* tokens, and an error caught from the refresh request is passed on as it is.
RejectTopKeepingTokens(r, status) ==
    LET rq == requests[r]
        nested == Len(rq.stack) > 1
        cause == CASE nested -> "refreshFailed"
                   [] ~nested /\ status = "401" /\ ~Top(r).retry /\ ~refreshToken
                        -> "noRefreshToken"
                   [] ~nested /\ status = "401" /\ Top(r).retry -> "retried"
                   [] OTHER -> "other"
    IN  /\ requests' = [requests EXCEPT ![r] = [rq EXCEPT !.stack = <<>>,
                                                         !.outcome = status,
                                                         !.escalated = (status = "401"),
                                                         !.cause = cause,
                                                         !.removed = "none"]]
        /\ IF status = "401"
              THEN /\ accessToken' = "absent"
                   /\ refreshToken' = FALSE
              ELSE UNCHANGED <<accessToken, refreshToken>>

\* The promise of the request on the wire rejects with an error whose status
\* is `status`. An interceptor invocation awaiting that request as its token
\* refresh catches the error, removes both tokens and rejects with status 401,
\* and so does every invocation below it. The catch block of updatePreference
\* receives the final error; for status 401 it calls onAuthFailure, which is
\* handleLogout, which calls api.logout().
RejectTop(r, status) ==
    LET rq == requests[r]
        nested == Len(rq.stack) > 1
        final == IF nested THEN "401" ELSE status
        cause == CASE nested -> "refreshFailed"
                   [] ~nested /\ status = "401" /\ ~Top(r).retry /\ ~refreshToken
                        -> "noRefreshToken"
                   [] ~nested /\ status = "401" /\ Top(r).retry -> "retried"
                   [] OTHER -> "other"
        removed == CASE cause = "refreshFailed" -> "both"
                     [] cause = "noRefreshToken" -> "access"
                     [] OTHER -> "none"
    IN  /\ requests' = [requests EXCEPT ![r] = [rq EXCEPT !.stack = <<>>,
                                                         !.outcome = final,
                                                         !.escalated = (final = "401"),
                                                         !.cause = cause,
                                                         !.removed = removed]]
        /\ IF final = "401"
              THEN /\ accessToken' = "absent"
                   /\ refreshToken' = FALSE
              ELSE UNCHANGED <<accessToken, refreshToken>>

\* The server answers the request on the wire with a 2xx status. A PATCH
\* resolves patchUserProfile; a refresh resumes the interceptor invocation
\* that awaits it: the new access token is stored and that invocation's
\* original request is sent again.
Respond2xx(r) ==
    /\ requests[r].stack # <<>>
    /\ LET rq == requests[r]
           n == Len(rq.stack)
       IN  IF n = 1
              THEN /\ requests' = [requests EXCEPT ![r] = [rq EXCEPT !.stack = <<>>,
                                                                    !.outcome = "ok"]]
                   /\ UNCHANGED <<accessToken, refreshToken>>
              ELSE /\ accessToken' = "refreshed"
                   /\ requests' =
                        [requests EXCEPT ![r] =
                            [rq EXCEPT !.stack = SubSeq(rq.stack, 1, n - 1),
                                       !.refreshed = (@ \/ rq.stack[n - 1].kind = "patch"),
                                       !.patchSends =
                                           IF rq.stack[n - 1].kind = "patch" THEN @ + 1 ELSE @,
                                       !.refreshSends =
                                           IF rq.stack[n - 1].kind = "refresh" THEN @ + 1 ELSE @]]
                   /\ UNCHANGED refreshToken
    /\ UNCHANGED <<providerVars, appVars, focusVars>>

\* Mutant of Respond401: the _retry flag is not tested, every 401 starts a
\* token refresh.
Respond401IgnoringRetry(r) ==
    /\ requests[r].stack # <<>>
    /\ LET rq == requests[r]
           n == Len(rq.stack)
       IN  IF refreshToken
              THEN /\ n < 1 + MaxNesting
                   /\ requests' =
                        [requests EXCEPT ![r] =
                            [rq EXCEPT !.stack = Append([rq.stack EXCEPT ![n].retry = TRUE],
                                                        [kind |-> "refresh", retry |-> FALSE]),
                                       !.refreshSends = @ + 1]]
                   /\ UNCHANGED <<accessToken, refreshToken>>
              ELSE RejectTop(r, "401")
    /\ UNCHANGED <<providerVars, appVars, focusVars>>

\* The server answers the request on the wire with 401. On the first 401 of a
\* request the interceptor sets _retry and, if a refresh token is stored, sends
\* a refresh request and awaits it; without a refresh token it removes the
\* access token and rejects. A request whose _retry is set is rejected.
Respond401(r) ==
    /\ requests[r].stack # <<>>
    /\ LET rq == requests[r]
           n == Len(rq.stack)
       IN  IF ~Top(r).retry /\ refreshToken
              THEN /\ n < 1 + MaxNesting
                   /\ requests' =
                        [requests EXCEPT ![r] =
                            [rq EXCEPT !.stack = Append([rq.stack EXCEPT ![n].retry = TRUE],
                                                        [kind |-> "refresh", retry |-> FALSE]),
                                       !.refreshSends = @ + 1]]
                   /\ UNCHANGED <<accessToken, refreshToken>>
              ELSE RejectTop(r, "401")
    /\ UNCHANGED <<providerVars, appVars, focusVars>>

\* The request on the wire gets no response, or times out.
RespondNoResponse(r) ==
    /\ requests[r].stack # <<>>
    /\ RejectTop(r, "0")
    /\ UNCHANGED <<providerVars, appVars, focusVars>>

\* The server answers the request on the wire with another error status.
RespondOtherError(r) ==
    /\ requests[r].stack # <<>>
    /\ RejectTop(r, "500")
    /\ UNCHANGED <<providerVars, appVars, focusVars>>

\* api.login: the access token is stored, and the refresh token if the
\* response carries one.
ApiLogin ==
    /\ accessToken = "absent"
    /\ accessToken' = "stored"
    /\ refreshToken' \in BOOLEAN
    /\ UNCHANGED requests
    /\ UNCHANGED <<providerVars, appVars, focusVars>>

\* api.logout, called by handleLogout when the user logs out.
ApiLogout ==
    /\ accessToken # "absent"
    /\ accessToken' = "absent"
    /\ refreshToken' = FALSE
    /\ UNCHANGED requests
    /\ UNCHANGED <<providerVars, appVars, focusVars>>

NextApi ==
    \/ \E r \in ApiRequests : SendPatch(r)
    \/ \E r \in ApiRequests : Respond2xx(r)
    \/ \E r \in ApiRequests : Respond401(r)
    \/ \E r \in ApiRequests : RespondNoResponse(r)
    \/ \E r \in ApiRequests : RespondOtherError(r)
    \/ ApiLogin
    \/ ApiLogout

SpecApi == Init /\ [][NextApi]_vars

-----------------------------------------------------------------------------
(* App: initialization on mount, login and logout (src/unnamed/part_001)    *)
(*                                                                         *)
(* fetches[f] is the position of one of the two requests of initializeApp  *)
(* inside the axios instance: "sent" (first request on the wire),          *)
(* "refreshing" (answered 401, the interceptor awaits the token refresh),  *)
(* "resent" (the request re-sent with the new token), "resolved",          *)
(* "rejected".  Every request on the wire is answered or aborted within    *)
(* the axios timeout of 5 seconds, so that 8 seconds can only pass while   *)
(* initializeApp is suspended if a request has gone beyond "sent".         *)

\* An App started with or without stored tokens.
InitApp ==
    /\ InitProvider
    /\ accessToken \in {"stored", "absent"}
    /\ refreshToken \in BOOLEAN
    /\ requests = [r \in ApiRequests |-> NoRequest]
    /\ InitAppState
    /\ InitFocus

\* The mount effect: initializeApp up to its await, or to its end when no
\* access token is stored.
InitializeAppMount ==
    /\ initializeApp = "notStarted"
    /\ IF accessToken # "absent"
         THEN /\ safetyTimeout' = "armed"
              /\ isLoadingUser' = TRUE
              /\ fetches' = [f \in Fetches |-> "sent"]
              /\ initializeApp' = "awaiting"
              /\ UNCHANGED isInitializing
         ELSE /\ safetyTimeout' = "cleared"
              /\ isInitializing' = FALSE
              /\ initializeApp' = "done"
              /\ UNCHANGED <<isLoadingUser, fetches>>
    /\ UNCHANGED <<isAuthenticated, appUser, error, accessToken, refreshToken>>
    /\ UNCHANGED <<providerVars, requests, focusVars>>

\* clearTimeout(safetyTimeout) in the finally block: no effect on a timer that
\* has fired.
ClearSafetyTimeout == IF safetyTimeout = "armed" THEN "cleared" ELSE safetyTimeout

\* A request of initializeApp is answered 2xx.  When it is the last of the
\* two, Promise.all resolves and initializeApp continues after the await:
\* setUser, setCourses, setIsAuthenticated(true), then the finally block.
FetchResolves(f) ==
    /\ fetches[f] \in {"sent", "resent"}
    /\ fetches' = [fetches EXCEPT ![f] = "resolved"]
    /\ IF initializeApp = "awaiting" /\ \A g \in Fetches \ {f} : fetches[g] = "resolved"
         THEN /\ appUser' = "profile"
              /\ isAuthenticated' = TRUE
              /\ safetyTimeout' = ClearSafetyTimeout
              /\ isLoadingUser' = FALSE
              /\ isInitializing' = FALSE
              /\ initializeApp' = "done"
         ELSE UNCHANGED <<appUser, isAuthenticated, safetyTimeout, isLoadingUser,
                          isInitializing, initializeApp>>
    /\ UNCHANGED <<error, accessToken, refreshToken>>
    /\ UNCHANGED <<providerVars, requests, focusVars>>

\* The first request is answered 401 while a refresh token is stored: the
\* interceptor sets _retry and awaits the refresh request.
Fetch401Refreshes(f) ==
    /\ fetches[f] = "sent"
    /\ refreshToken
    /\ fetches' = [fetches EXCEPT ![f] = "refreshing"]
    /\ UNCHANGED <<isInitializing, isAuthenticated, appUser, isLoadingUser, error,
                   initializeApp, safetyTimeout, accessToken, refreshToken>>
    /\ UNCHANGED <<providerVars, requests, focusVars>>

\* The refresh request is answered 2xx: the interceptor stores the new access
\* token and re-sends the request.
RefreshResolves(f) ==
    /\ fetches[f] = "refreshing"
    /\ accessToken' = "refreshed"
    /\ fetches' = [fetches EXCEPT ![f] = "resent"]
    /\ UNCHANGED <<isInitializing, isAuthenticated, appUser, isLoadingUser, error,
                   initializeApp, safetyTimeout, refreshToken>>
    /\ UNCHANGED <<providerVars, requests, focusVars>>

\* A request of initializeApp is rejected: no response or a timeout, an HTTP
\* error other than 401, a 401 with no refresh token stored (the interceptor
\* removes the access token), a 401 for the re-sent request, or a failed
\* refresh request (the interceptor removes both tokens).  The first
\* rejection rejects Promise.all and initializeApp runs its catch block
\* (setError, setIsAuthenticated(false), api.logout()) and its finally block.
FetchRejects(f, status) ==
    /\ fetches[f] \in {"sent", "refreshing", "resent"}
    /\ (fetches[f] = "sent" /\ status = 401) => ~refreshToken
    /\ fetches' = [fetches EXCEPT ![f] = "rejected"]
    /\ IF initializeApp = "awaiting"
         THEN /\ error' = TRUE
              /\ isAuthenticated' = FALSE
              /\ accessToken' = "absent"
              /\ refreshToken' = FALSE
              /\ safetyTimeout' = ClearSafetyTimeout
              /\ isLoadingUser' = FALSE
              /\ isInitializing' = FALSE
              /\ initializeApp' = "done"
         ELSE /\ accessToken' = IF \/ fetches[f] = "refreshing"
                                   \/ fetches[f] = "sent" /\ status = 401
                                  THEN "absent" ELSE accessToken
              /\ refreshToken' = IF fetches[f] = "refreshing" THEN FALSE ELSE refreshToken
              /\ UNCHANGED <<error, isAuthenticated, safetyTimeout, isLoadingUser,
                             isInitializing, initializeApp>>
    /\ UNCHANGED appUser
    /\ UNCHANGED <<providerVars, requests, focusVars>>

\* Mutant of SafetyTimeout: the callback leaves the loading screen up.
SafetyTimeoutKeepingScreen ==
    /\ safetyTimeout = "armed"
    /\ \E f \in Fetches : fetches[f] \in {"refreshing", "resent"}
    /\ safetyTimeout' = "fired"
    /\ isLoadingUser' = FALSE
    /\ isAuthenticated' = FALSE
    /\ accessToken' = "absent"
    /\ refreshToken' = FALSE
    /\ UNCHANGED <<isInitializing, appUser, error, initializeApp, fetches>>
    /\ UNCHANGED <<providerVars, requests, focusVars>>

\* The callback of the safety timer, 8 seconds after initializeApp armed it:
\* setIsInitializing(false), setIsLoadingUser(false),
\* setIsLoadingCourses(false), setIsAuthenticated(false), api.logout().
\* initializeApp stays suspended at its await.
SafetyTimeout ==
    /\ safetyTimeout = "armed"
    /\ \E f \in Fetches : fetches[f] \in {"refreshing", "resent"}
    /\ safetyTimeout' = "fired"
    /\ isInitializing' = FALSE
    /\ isLoadingUser' = FALSE
    /\ isAuthenticated' = FALSE
    /\ accessToken' = "absent"
    /\ refreshToken' = FALSE
    /\ UNCHANGED <<appUser, error, initializeApp, fetches>>
    /\ UNCHANGED <<providerVars, requests, focusVars>>

\* LoginForm, shown when the app is neither initializing nor authenticated:
\* api.login stores both tokens, then handleLoginSuccess.
HandleLoginSuccess ==
    /\ ~isInitializing
    /\ ~isAuthenticated
    /\ accessToken' = "stored"
    /\ refreshToken' = TRUE
    /\ appUser' = "profile"
    /\ isAuthenticated' = TRUE
    /\ error' = FALSE
    /\ UNCHANGED <<isInitializing, isLoadingUser, initializeApp, safetyTimeout, fetches>>
    /\ UNCHANGED <<providerVars, requests, focusVars>>

\* handleLogout, reachable from the dashboard.
HandleLogout ==
    /\ ~isInitializing
    /\ isAuthenticated
    /\ accessToken' = "absent"
    /\ refreshToken' = FALSE
    /\ isAuthenticated' = FALSE
    /\ appUser' = "null"
    /\ error' = FALSE
    /\ UNCHANGED <<isInitializing, isLoadingUser, initializeApp, safetyTimeout, fetches>>
    /\ UNCHANGED <<providerVars, requests, focusVars>>

\* HTTP statuses a rejection is told apart by: 401 and any other failure
\* (0 is the status the interceptor gives to a request without response).
RejectionStatuses == {0, 401}

NextApp ==
    \/ InitializeAppMount
    \/ \E f \in Fetches : FetchResolves(f)
    \/ \E f \in Fetches : Fetch401Refreshes(f)
    \/ \E f \in Fetches : RefreshResolves(f)
    \/ \E f \in Fetches : \E status \in RejectionStatuses : FetchRejects(f, status)
    \/ SafetyTimeout
    \/ HandleLoginSuccess
    \/ HandleLogout

\* The first request of a fetch is answered or aborted (axios timeout).
FirstLegSettles(f) ==
    /\ fetches[f] = "sent"
    /\ \/ FetchResolves(f)
       \/ Fetch401Refreshes(f)
       \/ \E status \in RejectionStatuses : FetchRejects(f, status)

\* The mount effect runs, an armed timer fires unless it is cleared, and a
\* request on the wire is answered or aborted after 5 seconds.  Nothing is
\* assumed of the refresh request and of the re-sent request.
SpecApp ==
    /\ InitApp
    /\ [][NextApp]_vars
    /\ WF_vars(InitializeAppMount)
    /\ WF_vars(SafetyTimeout)
    /\ \A f \in Fetches : WF_vars(FirstLegSettles(f))

-----------------------------------------------------------------------------
(* FocusEngine: the pomodoro timer (src/unnamed/part_005)                   *)
(*                                                                         *)
(* The settings (durations, cyclesToLongBreak) are fixed; the handlers are *)
(* reachable once the loading screen of FocusEngine is gone.               *)

\* The seconds a mode starts with: workDuration * 60, breakDuration * 60 or
\* longBreakDuration * 60.
FullDuration(m) ==
    60 * (CASE m = "work" -> workDuration
            [] m = "break" -> breakDuration
            [] m = "longBreak" -> longBreakDuration)

\* initializeTimer after its await, without a session to recover (or with a
\* failed request): timeLeft is the work duration.
InitializeTimer ==
    /\ isLoading
    /\ timeLeft' = FullDuration("work")
    /\ isLoading' = FALSE
    /\ UNCHANGED <<isRunning, mode, cyclesCompleted>>
    /\ UNCHANGED <<providerVars, apiVars, appVars>>

\* initializeTimer with a session to recover: recoverSession resumes a work
\* or break session that has `remaining` seconds left.
RecoverSession(recoveredMode, remaining) ==
    /\ isLoading
    /\ remaining \in 1..FullDuration(recoveredMode)
    /\ timeLeft' = remaining
    /\ mode' = recoveredMode
    /\ isRunning' = TRUE
    /\ isLoading' = FALSE
    /\ UNCHANGED cyclesCompleted
    /\ UNCHANGED <<providerVars, apiVars, appVars>>

HandleStart ==
    /\ ~isLoading
    /\ ~isRunning
    /\ cyclesCompleted < MaxCycles
    /\ isRunning' = TRUE
    /\ UNCHANGED <<timeLeft, mode, cyclesCompleted, isLoading>>
    /\ UNCHANGED <<providerVars, apiVars, appVars>>

HandlePause ==
    /\ ~isLoading
    /\ isRunning
    /\ isRunning' = FALSE
    /\ UNCHANGED <<timeLeft, mode, cyclesCompleted, isLoading>>
    /\ UNCHANGED <<providerVars, apiVars, appVars>>

HandleReset ==
    /\ ~isLoading
    /\ isRunning' = FALSE
    /\ timeLeft' = FullDuration("work")
    /\ mode' = "work"
    /\ UNCHANGED <<cyclesCompleted, isLoading>>
    /\ UNCHANGED <<providerVars, apiVars, appVars>>

\* handleSaveSettings after api.updateTimer resolved, the settings kept.
HandleSaveSettings ==
    /\ ~isLoading
    /\ timeLeft' = FullDuration("work")
    /\ mode' = "work"
    /\ isRunning' = FALSE
    /\ UNCHANGED <<cyclesCompleted, isLoading>>
    /\ UNCHANGED <<providerVars, apiVars, appVars>>

\* handleTimerComplete: the completed-cycle count it sets.
NewCycles == IF mode = "work" THEN cyclesCompleted + 1 ELSE cyclesCompleted

\* handleTimerComplete: the mode it sets.
NewMode ==
    IF mode = "work"
      THEN IF (cyclesCompleted + 1) % cyclesToLongBreak = 0 THEN "longBreak" ELSE "break"
      ELSE "work"

\* One callback of the interval of the countdown effect: setTimeLeft with an
\* updater that, at prev <= 1, calls handleTimerComplete and returns 0.
\* handleTimerComplete itself calls setTimeLeft(<full duration>), so two
\* updates of timeLeft are queued by one updater, which React requires to be
\* pure: when React runs the updater while rendering, the value set by
\* handleTimerComplete is applied after the updater's 0; when React runs it
\* eagerly inside the setTimeLeft call (no update pending on the component),
\* the value set by handleTimerComplete is queued first and the updater's 0
\* is applied last.
TimerTick ==
    /\ isRunning
    /\ ~isLoading
    /\ IF timeLeft <= 1
         THEN /\ isRunning' = FALSE
              /\ cyclesCompleted' = NewCycles
              /\ mode' = NewMode
              /\ \E updaterLast \in BOOLEAN :
                   timeLeft' = IF updaterLast THEN 0 ELSE FullDuration(NewMode)
         ELSE /\ timeLeft' = timeLeft - 1
              /\ UNCHANGED <<isRunning, mode, cyclesCompleted>>
    /\ UNCHANGED isLoading
    /\ UNCHANGED <<providerVars, apiVars, appVars>>

\* The modes a session can be recovered in.
RecoverableModes == {"work", "break"}

NextFocus ==
    \/ InitializeTimer
    \/ \E m \in RecoverableModes : \E remaining \in 1..FullDuration(m) : RecoverSession(m, remaining)
    \/ HandleStart
    \/ HandlePause
    \/ HandleReset
    \/ HandleSaveSettings
    \/ TimerTick

SpecFocus == Init /\ [][NextFocus]_vars

TypeOK ==
    /\ user \in {NullUser} \cup Profiles
    /\ savingStatus \in {"idle", "saving", "saved", "error"}
    /\ requestIdRef \in 0..MaxRequests
    /\ pendingRequestsRef \in 0..MaxRequests
    /\ timeoutIdsRef \in 0..MaxRequests

-----------------------------------------------------------------------------
(* Steps named by the properties below *)

Resolves(call) == ResolveSuccess(call) \/ ResolveAuthFailure(call) \/ ResolveFailure(call)

-----------------------------------------------------------------------------
(* C1 *)

\* C1: when a call resolves (success, 401 or other failure) after a later call
\* was issued, its resolution changes neither the PreferenceSet (the ref and
\* the values shown) nor savingStatus.
StaleCompletionSuppressed ==
    [][\A call \in inflight :
         (call.id # requestIdRef /\ Resolves(call))
            => UNCHANGED <<preferencesRef, reactState, savingStatus>>]_vars

\* A superseded call has just failed while the newer call is still in flight.
StaleFailureSeen ==
    /\ event.op = "resolve" /\ event.outcome = "error" /\ ~event.latest
    /\ \E call \in inflight : call.id = requestIdRef
    /\ savingStatus = "saving"

-----------------------------------------------------------------------------
(* C2 *)

\* C2: a call that fails with a non-401 error as the most recently issued call
\* leaves the whole PreferenceSet equal to the set before the call, the shown
\* value of its toggle equal to the value shown before the call, and
\* savingStatus 'error'.
RollbackOnFailure ==
    [][\A call \in inflight :
         (call.id = requestIdRef /\ ResolveFailure(call))
            => /\ preferencesRef' = call.previousPreferences
               /\ reactState'[call.preference] = call.shownBefore
               /\ savingStatus' = "error"]_vars

-----------------------------------------------------------------------------
(* C3 *)

-----------------------------------------------------------------------------
(* C4 *)

\* C4: when the user object changes while the pending counter is nonzero, the
\* hydrate effect leaves the PreferenceSet and the shown values unchanged.
HydrationGuard ==
    [][((\E u \in Profiles : SetUser(u)) /\ pendingRequestsRef # 0)
          => UNCHANGED <<preferencesRef, reactState>>]_vars

\* A profile whose preferences differ from the set arrived with a call in flight.
HydrationBlockedSeen ==
    /\ event.op = "hydrate" /\ ~event.applied
    /\ pendingRequestsRef # 0
    /\ user # NullUser
    /\ ProfileTable[user].hasPreferences
    /\ PrefsChanged(NewPrefs(ProfileTable[user].preferences))

-----------------------------------------------------------------------------
(* C5 *)

\* C5: the user becoming null yields the default PreferenceSet, status 'idle',
\* pending counter 0 and no outstanding auto-clear timer, whatever the state.
ResetYieldsDefaults ==
    [][(user # NullUser /\ user' = NullUser)
          => /\ preferencesRef' = DefaultPreferences
             /\ reactState' = DefaultPreferences
             /\ savingStatus' = "idle"
             /\ pendingRequestsRef' = 0
             /\ timeoutIdsRef' = 0]_vars

\* A reset has just run with a timer outstanding and a call in flight.
ResetSeen ==
    /\ event.op = "reset" /\ event.hadTimers
    /\ inflight # {}
    /\ \E call \in inflight : call.currentPreferences # DefaultPreferences

-----------------------------------------------------------------------------
(* C6 *)

-----------------------------------------------------------------------------
(* C7 *)

\* C7: a call with an unrecognized name leaves the PreferenceSet, savingStatus
\* and the pending counter as they were, and sends no request.
UnknownPreferenceIgnored ==
    [][(\E p \in UnknownPreferences : \E v \in ClickValues(p) : UpdatePreferenceUnknown(p, v))
          => UNCHANGED <<preferencesRef, reactState, savingStatus,
                         pendingRequestsRef, inflight>>]_vars

-----------------------------------------------------------------------------
(* C8 *)

\* C8: once every call has resolved, every auto-clear timer has fired and a
\* logout requested by onAuthFailure has been carried out, savingStatus is 'idle'.
StatusReturnsToIdle ==
    (inflight = {} /\ timeoutIdsRef = 0 /\ ~logoutRequested) => savingStatus = "idle"

-----------------------------------------------------------------------------
(* C9 *)

\* C9: whenever a non-401 failure rolls the PreferenceSet back, the restored
\* set is the last one the backend confirmed.
RollbackToLastConfirmed ==
    [][\A call \in inflight :
         (call.id = requestIdRef /\ ResolveFailure(call))
            => preferencesRef' = lastConfirmed]_vars

-----------------------------------------------------------------------------
(* C10 *)

\* C10: right after a valid updatePreference(name, value) returns, the ref and
\* the shown value hold value for name, savingStatus is 'saving' and the
\* pending counter is one greater than before.
OptimisticUpdate ==
    [][\A p \in RecognizedPreferences : \A v \in ValidValues(p) :
         UpdatePreference(p, v)
            => /\ preferencesRef'[p] = v
               /\ reactState'[p] = v
               /\ savingStatus' = "saving"
               /\ pendingRequestsRef' = pendingRequestsRef + 1]_vars

\* A call has just changed a toggle and its request is in flight.
OptimisticUpdateSeen ==
    /\ event.op = "call"
    /\ savingStatus = "saving"
    /\ \E call \in inflight :
         /\ call.id = requestIdRef
         /\ call.previousValue # call.value
         /\ preferencesRef[call.preference] = call.value
         /\ reactState[call.preference] = call.value

-----------------------------------------------------------------------------
(* C11 *)

\* C11: an updatePreference call made while the user is null allocates no
\* sequence number, changes neither the PreferenceSet (ref and shown values)
\* nor savingStatus nor the pending counter, and sends no request.
NoUserNoOp ==
    [][(\E p \in RecognizedPreferences \cup UnknownPreferences :
          \E v \in ClickValues(p) : UpdatePreferenceNoUser(p, v))
          => UNCHANGED <<requestIdRef, preferencesRef, reactState, savingStatus,
                         pendingRequestsRef, inflight>>]_vars

\* A call was made after a logout, while a call of the previous session was
\* still in flight.
NoUserCallSeen ==
    /\ event.op = "noUser"
    /\ user = NullUser
    /\ inflight # {}
    /\ requestIdRef > 0

-----------------------------------------------------------------------------
(* C12 *)

\* C12: an updatePreference call with a recognized name and a value outside
\* that toggle's domain is rejected before any state mutation: it changes
\* neither the PreferenceSet nor the shown values, savingStatus or the pending
\* counter, and sends no request.
InvalidValueRejected ==
    [][\A p \in RecognizedPreferences : \A v \in InvalidValues(p) :
         UpdatePreference(p, v)
            => UNCHANGED <<preferencesRef, reactState, savingStatus,
                           pendingRequestsRef, inflight>>]_vars

-----------------------------------------------------------------------------
(* C13 *)

\* The set hydration is specified to produce from the profile u: the remote
\* field where it is present and well-formed, the fixed default elsewhere.
ExpectedHydration(u) ==
    [k \in RecognizedPreferences |->
        IF ProfileTable[u].preferences[k] \in ValidValues(k)
           THEN ProfileTable[u].preferences[k]
           ELSE DefaultPreferences[k]]

\* C13: when a profile with preferences arrives while the pending counter is
\* zero and some field differs, every toggle afterwards equals the remote field
\* if it is present and well-formed and the fixed default otherwise; when no
\* field differs, hydrate changes nothing.
HydrationResult ==
    [][\A u \in Profiles :
         (SetUser(u) /\ ProfileTable[u].hasPreferences /\ pendingRequestsRef = 0)
            => IF preferencesRef # ExpectedHydration(u)
                  THEN /\ preferencesRef' = ExpectedHydration(u)
                       /\ reactState' = ExpectedHydration(u)
                  ELSE UNCHANGED <<preferencesRef, reactState>>]_vars

-----------------------------------------------------------------------------
(* C14 *)

\* C14: the payload of each persistence call is the complete six-field
\* PreferenceSet as it stands right after the call's own optimistic update
\* (so it carries the unconfirmed values of earlier calls), and no later step
\* alters the payload of a call in flight.
FullSetPayload ==
    [][/\ \A p \in RecognizedPreferences : \A v \in ValidValues(p) :
            UpdatePreference(p, v)
               => \E call \in inflight' \ inflight :
                     /\ call.id = requestIdRef'
                     /\ DOMAIN call.currentPreferences = RecognizedPreferences
                     /\ call.currentPreferences = [preferencesRef EXCEPT ![p] = v]
                     /\ call.currentPreferences = preferencesRef'
       /\ \A call \in inflight : \A later \in inflight' :
            later.id = call.id => later.currentPreferences = call.currentPreferences]_vars

\* A second call has just been sent while the first is in flight, and its
\* payload carries the first call's unconfirmed value next to its own.
PayloadCarriesEarlierValueSeen ==
    /\ event.op = "call"
    /\ \E a \in inflight : \E b \in inflight :
         /\ a.id < b.id /\ b.id = requestIdRef
         /\ a.undisturbed
         /\ a.preference # b.preference
         /\ a.value # lastConfirmed[a.preference]
         /\ b.currentPreferences[a.preference] = a.value
         /\ b.currentPreferences[b.preference] = b.value
         /\ b.value # b.previousValue

-----------------------------------------------------------------------------
(* C15 *)

\* C15: in every reachable state the pending counter equals the number of
\* persistence calls that were sent and have not yet resolved.
PendingCounterAccurate == pendingRequestsRef = Cardinality(inflight)

-----------------------------------------------------------------------------
(* C16 *)

\* C16: an auto-clear timer that fires while at least one persistence call is
\* still in flight leaves savingStatus unchanged.
AutoClearGuard ==
    [][(AutoClearTimer /\ inflight # {}) => UNCHANGED savingStatus]_vars

-----------------------------------------------------------------------------
(* C17 *)

\* C17: every step that changes savingStatus to 'saved' or 'error' starts from
\* 'saving'; in particular the status never goes from 'idle' directly to
\* 'saved' or 'error'.
StatusStateMachine ==
    [][(savingStatus' \in {"saved", "error"} /\ savingStatus' # savingStatus)
          => savingStatus = "saving"]_vars

-----------------------------------------------------------------------------
(* C19 *)

-----------------------------------------------------------------------------
(* C20 *)

\* C20: requestIdRef never decreases, in any step including reset and
\* re-login; every call that passes the user check takes a number strictly
\* greater than the counter before it, and a call that is sent is stamped with
\* that number, greater than the number of every call still in flight.
SequenceNumbersMonotone ==
    [][/\ requestIdRef' >= requestIdRef
       /\ (\E p \in RecognizedPreferences : \E v \in ValidValues(p) : UpdatePreference(p, v))
             => requestIdRef' > requestIdRef
       /\ (\E p \in UnknownPreferences : \E v \in ClickValues(p) : UpdatePreferenceUnknown(p, v))
             => requestIdRef' > requestIdRef
       /\ \A call \in inflight' \ inflight :
            call.id \notin {c.id : c \in inflight}
               => /\ call.id = requestIdRef'
                  /\ call.id > requestIdRef
                  /\ \A c \in inflight : c.id < call.id]_vars

\* A call has just been sent after a logout and a re-login, while a call of
\* the previous session is still in flight with a smaller number.
SequenceAcrossSessionsSeen ==
    /\ event.op = "call"
    /\ user # NullUser
    /\ \E a \in inflight : \E b \in inflight :
         /\ ~a.undisturbed /\ b.undisturbed
         /\ a.id < b.id /\ b.id = requestIdRef

-----------------------------------------------------------------------------
(* C18 *)

\* C18: a preference persistence call that receives HTTP 401 is not sent
\* again automatically: every PATCH is put on the wire at most once.
NoSilentRetry == \A r \in ApiRequests : requests[r].patchSends <= 1

\* C18 as amended: a PATCH is sent again at most once, and only after the
\* token refresh started by its 401 succeeded; a call that is rejected with
\* status 401 has nothing left on the wire and has been escalated through
\* onAuthFailure, and only such a call is escalated.
RetryOnceThenEscalate ==
    \A r \in ApiRequests :
        /\ requests[r].patchSends <= 2
        /\ requests[r].patchSends = 2 => requests[r].refreshed
        /\ requests[r].outcome = "401"
              => requests[r].escalated /\ requests[r].stack = <<>>
        /\ requests[r].escalated => requests[r].outcome = "401"

\* A PATCH was answered with 401, sent again after a successful refresh,
\* answered with 401 again and escalated.
RetriedThenEscalatedSeen ==
    \E r \in ApiRequests :
        /\ requests[r].patchSends = 2
        /\ requests[r].refreshed
        /\ requests[r].outcome = "401"
        /\ requests[r].escalated
        /\ accessToken = "absent"

-----------------------------------------------------------------------------
(* C21 *)

\* C21: once a reset has run, the later resolution (success or non-auth
\* failure) of a call issued before that reset changes neither the
\* PreferenceSet, nor the shown values, nor savingStatus, nor the pending
\* counter, whether the user is still null or a new profile was hydrated.
SessionIsolation ==
    [][\A call \in inflight :
         (call.resetSince /\ (ResolveSuccess(call) \/ ResolveFailure(call)))
            => UNCHANGED <<preferencesRef, reactState, savingStatus,
                           pendingRequestsRef>>]_vars

-----------------------------------------------------------------------------
(* C22 *)

\* C22: a call in flight after which only calls with an unrecognized name were
\* made (no later call was sent, no reset ran) is still treated as the most
\* recent call: when it fails with a non-auth error its optimistic change is
\* rolled back and the status becomes 'error', when it succeeds the status
\* becomes 'saved'.
RejectedCallDoesNotSupersede ==
    [][\A call \in inflight :
         (~call.superseded /\ call.undisturbed /\ requestIdRef > call.id)
            => /\ ResolveFailure(call)
                    => /\ preferencesRef' = call.previousPreferences
                       /\ reactState'[call.preference] = call.previousValue
                       /\ savingStatus' = "error"
               /\ ResolveSuccess(call) => savingStatus' = "saved"]_vars

-----------------------------------------------------------------------------
(* C23 *)

\* C23: when the most recent call B fails with a non-auth error and no reset
\* ran since B was issued, the whole ref set afterwards equals the set as it
\* was immediately before B was issued; in particular it keeps the optimistic
\* value of a call A on another toggle that was issued just before B and is
\* still in flight.
FullBundleRollback ==
    [][\A b \in inflight :
         (b.id = requestIdRef /\ ~b.resetSince /\ ResolveFailure(b))
            => /\ preferencesRef' = b.previousPreferences
               /\ \A a \in inflight :
                    (a.id + 1 = b.id /\ ~a.resetSince /\ a.preference # b.preference)
                       => preferencesRef'[a.preference] = a.value]_vars

\* B has just failed as the most recent call while A is still in flight: B's
\* toggle is back at its old value and A's unconfirmed value is kept.
OverlapRollbackSeen ==
    /\ event.op = "resolve" /\ event.outcome = "error" /\ event.latest
    /\ savingStatus = "error"
    /\ \E a \in inflight :
         /\ a.superseded /\ ~a.resetSince
         /\ a.value # a.previousValue
         /\ preferencesRef[a.preference] = a.value
         /\ preferencesRef = a.currentPreferences

-----------------------------------------------------------------------------
(* C24 *)

\* C24: in every reachable state each shown value equals the corresponding
\* field of preferencesRef.
SingleSourceOfTruth == reactState = preferencesRef

-----------------------------------------------------------------------------
(* C25 *)

-----------------------------------------------------------------------------
(* C26 *)

\* C26: for any request answered with 401, at most one token refresh is
\* attempted and the original request is sent again at most once, also when
\* the refresh endpoint itself answers 401.
AtMostOneRefresh ==
    \A r \in ApiRequests :
        /\ requests[r].refreshSends <= 1
        /\ requests[r].patchSends <= 2

-----------------------------------------------------------------------------
(* C27 *)

-----------------------------------------------------------------------------
(* C28 *)

\* C28: the step in which initializeApp puts the app into the authenticated
\* state is never taken after the safety timeout has fired, and it leaves an
\* access token stored.
TimeoutWinsInitializationRace ==
    [][(initializeApp = "awaiting" /\ initializeApp' = "done" /\ isAuthenticated')
          => (safetyTimeout # "fired" /\ accessToken' # "absent")]_vars

-----------------------------------------------------------------------------
(* C29 *)

\* C29: from app start isInitializing eventually becomes false, whether no
\* token is stored, the fetch succeeds, fails or does not settle, and once
\* false it never becomes true again.
LeavesLoadingScreen ==
    /\ <>(~isInitializing)
    /\ [][~isInitializing => ~isInitializing']_vars

\* The loading screen was left through the safety timeout while initializeApp
\* is still suspended at its await.
LeftByTimeoutSeen ==
    /\ ~isInitializing
    /\ safetyTimeout = "fired"
    /\ initializeApp = "awaiting"

-----------------------------------------------------------------------------
(* C30 *)

\* C30: when the countdown completes the timer stops running; after 'work'
\* the completed-cycle count increases by one and the mode becomes
\* 'longBreak' exactly when the new count is a multiple of cyclesToLongBreak
\* and 'break' otherwise; after 'break' or 'longBreak' the mode becomes 'work'
\* and the count is kept; timeLeft is the full duration of the new mode; and
\* timeLeft is never negative.
PomodoroCycle ==
    /\ [][(timeLeft <= 1 /\ TimerTick)
            => /\ ~isRunning'
               /\ cyclesCompleted' = (IF mode = "work" THEN cyclesCompleted + 1
                                                         ELSE cyclesCompleted)
               /\ mode' = (IF mode # "work" THEN "work"
                           ELSE IF cyclesCompleted' % cyclesToLongBreak = 0
                                  THEN "longBreak" ELSE "break")
               /\ timeLeft' = FullDuration(mode')]_vars
    /\ [](timeLeft >= 0)

====
